---- MODULE Spec2Model ----
(***************************************************************************)
(* Conversation routes of the chat gateway (backend/api/routers/conv.py).  *)
(*                                                                         *)
(* The store is the conversation table, keyed by conversation_id.  Each    *)
(* request runs in a slot; a handler is split at its awaits: the load of   *)
(* the record in _get_conversation_by_id, the call of the upstream         *)
(* manager, and the commit in a fresh session.                             *)
(***************************************************************************)
EXTENDS Integers, FiniteSets, TLC

VARIABLES
    store,      \* conversation table: conversation_id -> record (absent ids are not in the domain)
    req,        \* per slot: the request being served, its position and what it loaded
    upDeletes,  \* per conversation_id: manager.delete_conversation calls the handler accepted
    applied     \* the delete variant the latest finished request applied (answered 200), if any

vars == <<store, req, upDeletes, applied>>

\* ---------------------------------------------------------------- bounds
MaxInflight == 2
NumConvs == 2

Slots == 1..MaxInflight
ConvIds == 1..NumConvs

\* ---------------------------------------------------------------- data
NoTitle == "<null>"
Titles == {"t1"}

UserTable ==
    { [id |-> 1, username |-> "admin", is_superuser |-> TRUE],
      [id |-> 2, username |-> "alice", is_superuser |-> FALSE],
      [id |-> 3, username |-> "bob",   is_superuser |-> FALSE] }

UserIds == { u.id : u \in UserTable }
Usernames == { u.username : u \in UserTable } \cup {"nobody"}

UserById(id) == CHOOSE u \in UserTable : u.id = id

\* select(User).where(User.username == username) ... one_or_none()
UsersByName(username) == { u \in UserTable : u.username = username }

Conversation == [user_id : UserIds, is_valid : BOOLEAN, title : Titles \cup {NoTitle}]

NoConv == [user_id |-> 0, is_valid |-> FALSE, title |-> NoTitle]

Stores == UNION { [D -> Conversation] : D \in SUBSET ConvIds }

ByIdOps == {"get_conversation_history", "delete_conversation", "vanish_conversation",
            "update_conversation_title", "generate_conversation_title"}

IdleReq ==
    [pc |-> "idle", op |-> "none", user |-> 0, cid |-> 0, arg |-> "none",
     conv |-> NoConv, up |-> "none", ret |-> "none", out |-> "none", result |-> {}]

NewReq(op, user, cid, arg) ==
    [IdleReq EXCEPT !.pc = "start", !.op = op, !.user = user, !.cid = cid, !.arg = arg]

Finish(r, out) == [r EXCEPT !.pc = "done", !.out = out]

\* ---------------------------------------------------------------- persistence
\* delete(RevConversation).where(conversation_id == cid)
RemoveRow(st, cid) == [c \in (DOMAIN st) \ {cid} |-> st[c]]

\* ---------------------------------------------------------------- scheduling
\* A new request takes the lowest free slot (slots are interchangeable).
FreeSlot(s) ==
    /\ req[s].pc = "idle"
    /\ \A t \in Slots : t < s => req[t].pc # "idle"

\* A finished request is observed and leaves before anything else happens.
NoneDone == \A t \in Slots : req[t].pc # "done"

Serial == \A t \in Slots : req[t].pc = "idle"

\* ---------------------------------------------------------------- _get_conversation_by_id
\* Variant: the superuser test not negated.
Authorised_SuperuserNotNegated(user, conversation) ==
    ~(UserById(user).is_superuser /\ conversation.user_id # user)

Authorised(user, conversation) ==
    UserById(user).is_superuser \/ conversation.user_id = user

GetConversationById(r) ==
    IF r.cid \notin DOMAIN store
    THEN Finish(r, "errors.conversationNotFound")
    ELSE IF ~Authorised(r.user, store[r.cid])
    THEN Finish(r, "AuthorityDenyException")
    ELSE [r EXCEPT !.pc = "loaded", !.conv = store[r.cid]]

LoadArgs(op) ==
    IF op = "update_conversation_title" THEN Titles
    ELSE IF op = "get_conversation_history" THEN {"true", "false"}
    ELSE {"none"}

LoadOf(s, ops) ==
    /\ NoneDone /\ FreeSlot(s)
    /\ \E op \in ops, user \in UserIds, cid \in ConvIds :
         \E arg \in LoadArgs(op) :
            req' = [req EXCEPT ![s] = GetConversationById(NewReq(op, user, cid, arg))]
    /\ UNCHANGED <<store, upDeletes, applied>>

Load(s) == LoadOf(s, ByIdOps)

LoadDelete(s) == LoadOf(s, {"delete_conversation", "vanish_conversation"})

\* ---------------------------------------------------------------- get_all_conversations
\* Variant: the is_valid filter left out.
OwnValid_NoValidityFilter(user) ==
    { c \in DOMAIN store : store[c].user_id = user }

OwnValid(user) ==
    { c \in DOMAIN store : store[c].user_id = user /\ store[c].is_valid }

GetAllResult(r) ==
    IF r.arg = "true" /\ ~UserById(r.user).is_superuser
    THEN Finish(r, "AuthorityDenyException")
    ELSE [Finish(r, "200") EXCEPT
            !.result = IF r.arg = "true" THEN DOMAIN store ELSE OwnValid(r.user)]

get_all_conversations(s) ==
    /\ NoneDone /\ FreeSlot(s)
    /\ \E user \in UserIds, fetch_all \in {"true", "false"} :
         req' = [req EXCEPT ![s] =
                    GetAllResult(NewReq("get_all_conversations", user, 0, fetch_all))]
    /\ UNCHANGED <<store, upDeletes, applied>>

\* ---------------------------------------------------------------- get_conversation_history
HistoryOutcomes == {"ok", "http404", "httpOther", "ValueError"}

\* Variant: the 404 test left out, every HTTPStatusError an InternalException.
HistoryResult_No404(r, outcome) ==
    CASE outcome \in {"http404", "httpOther"} -> Finish(r, "InternalException")
      [] outcome = "ValueError" -> Finish(r, "InternalException(message)")
      [] OTHER                  -> Finish(r, "200")

HistoryResult(r, outcome) ==
    CASE outcome = "http404"    -> Finish(r, "errors.conversationNotFound")
      [] outcome = "httpOther"  -> Finish(r, "InternalException")
      [] outcome = "ValueError" -> Finish(r, "InternalException(message)")
      [] OTHER                  -> Finish(r, "200")

get_conversation_history(s) ==
    /\ NoneDone
    /\ req[s].pc = "loaded" /\ req[s].op = "get_conversation_history"
    /\ \E outcome \in HistoryOutcomes :
         req' = [req EXCEPT ![s] = HistoryResult([req[s] EXCEPT !.up = outcome], outcome)]
    /\ UNCHANGED <<store, upDeletes, applied>>

\* ---------------------------------------------------------------- delete / vanish
DeleteOutcomes == {"ok", "revChatGPTError", "http404", "httpOther"}

\* Variant: every HTTPStatusError is raised again, 404 included.
AfterManagerDelete_Raise404(r, outcome) ==
    IF outcome \in {"httpOther", "http404"}
    THEN Finish([r EXCEPT !.up = outcome], "HTTPStatusError")
    ELSE [r EXCEPT !.pc = "called", !.up = outcome]

\* try: await manager.delete_conversation(...) except revChatGPTError / HTTPStatusError
AfterManagerDelete(r, outcome) ==
    IF outcome = "httpOther"
    THEN Finish([r EXCEPT !.up = outcome], "HTTPStatusError")
    ELSE [r EXCEPT !.pc = "called", !.up = outcome]

CountDelete(r1) ==
    IF r1.pc = "called" THEN [upDeletes EXCEPT ![r1.cid] = @ + 1] ELSE upDeletes

delete_conversation_call(s) ==
    /\ NoneDone
    /\ req[s].pc = "loaded" /\ req[s].op = "delete_conversation"
    /\ IF ~req[s].conv.is_valid
       THEN /\ req' = [req EXCEPT ![s] = Finish(req[s], "errors.conversationAlreadyDeleted")]
            /\ UNCHANGED <<upDeletes, applied>>
       ELSE \E outcome \in DeleteOutcomes :
              /\ req' = [req EXCEPT ![s] = AfterManagerDelete(req[s], outcome)]
              /\ upDeletes' = CountDelete(AfterManagerDelete(req[s], outcome))
    /\ UNCHANGED <<store, applied>>

\* Variant: the flag is not cleared before the commit.
SoftDeleteRow_FlagKept(st, cid) == st

\* conversation.is_valid = False; session.add(conversation); commit:
\* an UPDATE of the changed column where the primary key matches; no row, no commit.
SoftDeleteRow(st, cid) ==
    [st EXCEPT ![cid].is_valid = FALSE]

delete_conversation_commit(s) ==
    /\ NoneDone
    /\ req[s].pc = "called" /\ req[s].op = "delete_conversation"
    /\ IF req[s].cid \in DOMAIN store
       THEN /\ store' = SoftDeleteRow(store, req[s].cid)
            /\ req' = [req EXCEPT ![s] = Finish(req[s], "200")]
       ELSE /\ req' = [req EXCEPT ![s] = Finish(req[s], "StaleDataError")]
            /\ UNCHANGED <<store, applied>>
    /\ UNCHANGED <<upDeletes, applied>>

vanish_conversation_call(s) ==
    /\ NoneDone
    /\ req[s].pc = "loaded" /\ req[s].op = "vanish_conversation"
    /\ req[s].conv.is_valid
    /\ \E outcome \in DeleteOutcomes :
         /\ req' = [req EXCEPT ![s] = AfterManagerDelete(req[s], outcome)]
         /\ upDeletes' = CountDelete(AfterManagerDelete(req[s], outcome))
    /\ UNCHANGED <<store, applied>>

vanish_conversation_commit(s) ==
    /\ NoneDone
    /\ req[s].op = "vanish_conversation"
    /\ \/ req[s].pc = "called"
       \/ req[s].pc = "loaded" /\ ~req[s].conv.is_valid
    /\ store' = RemoveRow(store, req[s].cid)
    /\ req' = [req EXCEPT ![s] = Finish(req[s], "200")]
    /\ UNCHANGED <<upDeletes, applied>>

\* ---------------------------------------------------------------- update_conversation_title
ManagerOutcomes == {"ok", "error"}

\* conversation.title = title; session.add(conversation); commit: the UPDATE is
\* issued only when the value differs from the one that was loaded.
TitleWrite(st, cid, conversation, title) ==
    IF conversation.title = title THEN st ELSE [st EXCEPT ![cid].title = title]

\* Variant: the record is committed before the manager is called.
update_conversation_title_call_CommitFirst(s) ==
    /\ NoneDone
    /\ req[s].pc = "loaded" /\ req[s].op = "update_conversation_title"
    /\ store' = TitleWrite(store, req[s].cid, req[s].conv, req[s].arg)
    /\ \E outcome \in ManagerOutcomes :
         req' = [req EXCEPT ![s] =
                    IF outcome = "ok"
                    THEN [req[s] EXCEPT !.pc = "called", !.up = outcome]
                    ELSE Finish([req[s] EXCEPT !.up = outcome], "ManagerError")]
    /\ UNCHANGED <<upDeletes, applied>>

update_conversation_title_call(s) ==
    /\ NoneDone
    /\ req[s].pc = "loaded" /\ req[s].op = "update_conversation_title"
    /\ \E outcome \in ManagerOutcomes :
         req' = [req EXCEPT ![s] =
                    IF outcome = "ok"
                    THEN [req[s] EXCEPT !.pc = "called", !.up = outcome]
                    ELSE Finish([req[s] EXCEPT !.up = outcome], "ManagerError")]
    /\ UNCHANGED <<store, upDeletes, applied>>

update_conversation_title_commit(s) ==
    /\ NoneDone
    /\ req[s].pc = "called" /\ req[s].op = "update_conversation_title"
    /\ IF req[s].cid \in DOMAIN store
       THEN /\ store' = TitleWrite(store, req[s].cid, req[s].conv, req[s].arg)
            /\ req' = [req EXCEPT ![s] = Finish(req[s], "200")]
       ELSE /\ req' = [req EXCEPT ![s] = Finish(req[s], "StaleDataError")]
            /\ UNCHANGED <<store, applied>>
    /\ UNCHANGED <<upDeletes, applied>>

\* ---------------------------------------------------------------- assign_conversation
\* Variant: the route depends on current_active_user, not current_super_user.
AssignLookup_AnyUser(r) ==
    IF UsersByName(r.arg) = {}
    THEN Finish(r, "errors.userNotFound")
    ELSE IF r.cid \notin DOMAIN store
    THEN Finish(r, "errors.conversationNotFound")
    ELSE [r EXCEPT !.pc = "loaded", !.conv = store[r.cid]]

AssignLookup(r) ==
    IF ~UserById(r.user).is_superuser
    THEN Finish(r, "Forbidden")
    ELSE IF UsersByName(r.arg) = {}
    THEN Finish(r, "errors.userNotFound")
    ELSE IF r.cid \notin DOMAIN store
    THEN Finish(r, "errors.conversationNotFound")
    ELSE [r EXCEPT !.pc = "loaded", !.conv = store[r.cid]]

assign_conversation_load(s) ==
    /\ NoneDone /\ FreeSlot(s)
    /\ \E user \in UserIds, username \in Usernames, cid \in ConvIds :
         req' = [req EXCEPT ![s] =
                    AssignLookup(NewReq("assign_conversation", user, cid, username))]
    /\ UNCHANGED <<store, upDeletes, applied>>

AssignedUser(username) == CHOOSE u \in UsersByName(username) : TRUE

\* conversation.user_id = user.id; session.add(conversation); commit
\* Variant: the assignment also marks the conversation valid.
AssignWrite_Revalidate(st, cid, username) ==
    [st EXCEPT ![cid].user_id = AssignedUser(username).id, ![cid].is_valid = TRUE]

AssignWrite(st, cid, username) ==
    [st EXCEPT ![cid].user_id = AssignedUser(username).id]

assign_conversation_commit(s) ==
    /\ NoneDone
    /\ req[s].pc = "loaded" /\ req[s].op = "assign_conversation"
    /\ IF req[s].conv.user_id = AssignedUser(req[s].arg).id
       THEN /\ req' = [req EXCEPT ![s] = Finish(req[s], "200")]
            /\ UNCHANGED <<store, applied>>
       ELSE IF req[s].cid \in DOMAIN store
       THEN /\ store' = AssignWrite(store, req[s].cid, req[s].arg)
            /\ req' = [req EXCEPT ![s] = Finish(req[s], "200")]
       ELSE /\ req' = [req EXCEPT ![s] = Finish(req[s], "StaleDataError")]
            /\ UNCHANGED <<store, applied>>
    /\ UNCHANGED <<upDeletes, applied>>

\* ---------------------------------------------------------------- delete_all_conversation
ClearResult(r, outcome) ==
    IF ~UserById(r.user).is_superuser
    THEN Finish(r, "Forbidden")
    ELSE IF outcome = "ok"
    THEN [r EXCEPT !.pc = "called", !.up = outcome]
    ELSE Finish([r EXCEPT !.up = outcome], "ManagerError")

delete_all_conversation_call(s) ==
    /\ NoneDone /\ FreeSlot(s)
    /\ \E user \in UserIds, outcome \in ManagerOutcomes :
         req' = [req EXCEPT ![s] =
                    ClearResult(NewReq("delete_all_conversation", user, 0, "none"), outcome)]
    /\ UNCHANGED <<store, upDeletes, applied>>

\* delete(RevConversation)
RemoveAllRows(st) == [c \in {} |-> NoConv]

delete_all_conversation_commit(s) ==
    /\ NoneDone
    /\ req[s].pc = "called" /\ req[s].op = "delete_all_conversation"
    /\ store' = RemoveAllRows(store)
    /\ req' = [req EXCEPT ![s] = Finish(req[s], "200")]
    /\ UNCHANGED <<upDeletes, applied>>

\* ---------------------------------------------------------------- generate_conversation_title
\* result["title"]: a title, or empty with result["message"]
GeneratedTitles == Titles \cup {""}

GenerateResult(r, outcome, title) ==
    IF outcome # "ok"
    THEN Finish([r EXCEPT !.up = outcome], "ManagerError")
    ELSE IF title # ""
    THEN [r EXCEPT !.pc = "called", !.up = outcome, !.ret = title]
    ELSE Finish([r EXCEPT !.up = outcome, !.ret = title], "InvalidParamsException(message)")

generate_conversation_title_call(s) ==
    /\ NoneDone
    /\ req[s].pc = "loaded" /\ req[s].op = "generate_conversation_title"
    /\ IF req[s].conv.title # NoTitle
       THEN req' = [req EXCEPT ![s] =
                       Finish(req[s], "errors.conversationTitleAlreadyGenerated")]
       ELSE \E outcome \in ManagerOutcomes, title \in GeneratedTitles :
              req' = [req EXCEPT ![s] = GenerateResult(req[s], outcome, title)]
    /\ UNCHANGED <<store, upDeletes, applied>>

generate_conversation_title_commit(s) ==
    /\ NoneDone
    /\ req[s].pc = "called" /\ req[s].op = "generate_conversation_title"
    /\ IF req[s].cid \in DOMAIN store
       THEN /\ store' = TitleWrite(store, req[s].cid, req[s].conv, req[s].ret)
            /\ req' = [req EXCEPT ![s] = Finish(req[s], "200")]
       ELSE /\ req' = [req EXCEPT ![s] = Finish(req[s], "StaleDataError")]
            /\ UNCHANGED <<store, applied>>
    /\ UNCHANGED <<upDeletes, applied>>

\* ---------------------------------------------------------------- scheduling
NothingApplied == [kind |-> "none", cid |-> 0]

AppliedBy(r) ==
    IF r.out = "200" /\ r.op = "delete_conversation" THEN [kind |-> "soft", cid |-> r.cid]
    ELSE IF r.out = "200" /\ r.op = "vanish_conversation" THEN [kind |-> "hard", cid |-> r.cid]
    ELSE NothingApplied

Retire(s) ==
    /\ req[s].pc = "done"
    /\ req' = [req EXCEPT ![s] = IdleReq]
    /\ applied' = AppliedBy(req[s])
    /\ UNCHANGED <<store, upDeletes>>

\* The table as the chat routes left it: every conversation stored, valid and
\* not yet titled, each owned by some user.
FreshConversations == { c \in Conversation : c.is_valid /\ c.title = NoTitle }

Init ==
    /\ store \in [ConvIds -> FreshConversations]
    /\ req = [s \in Slots |-> IdleReq]
    /\ upDeletes = [c \in ConvIds |-> 0]
    /\ applied = NothingApplied

ContinueStep(s) ==
    \/ get_conversation_history(s)
    \/ delete_conversation_call(s)
    \/ delete_conversation_commit(s)
    \/ vanish_conversation_call(s)
    \/ vanish_conversation_commit(s)
    \/ update_conversation_title_call(s)
    \/ update_conversation_title_commit(s)
    \/ assign_conversation_commit(s)
    \/ delete_all_conversation_commit(s)
    \/ generate_conversation_title_call(s)
    \/ generate_conversation_title_commit(s)
    \/ Retire(s)

\* Requests served one at a time: a request starts when no other is in flight.
SerialLoad(s) == Serial /\ Load(s)

SerialGetAll(s) == Serial /\ get_all_conversations(s)

SerialAssign(s) == Serial /\ assign_conversation_load(s)

SerialDeleteAll(s) == Serial /\ delete_all_conversation_call(s)

SerialNext ==
    \E s \in Slots :
        \/ SerialLoad(s)
        \/ SerialGetAll(s)
        \/ SerialAssign(s)
        \/ SerialDeleteAll(s)
        \/ ContinueStep(s)

SerialSpec == Init /\ [][SerialNext]_vars

\* Concurrent delete and vanish requests, interleaved at their awaits.
ConcurrentNext ==
    \E s \in Slots :
        \/ LoadDelete(s)
        \/ delete_conversation_call(s)
        \/ delete_conversation_commit(s)
        \/ vanish_conversation_call(s)
        \/ vanish_conversation_commit(s)
        \/ Retire(s)

ConcurrentSpec == Init /\ [][ConcurrentNext]_vars

\* ================================================================ properties
IsSuperuser(user) == \E u \in UserTable : u.id = user /\ u.is_superuser

\* Slot s starts a request in this step.
Starts(s) == req[s].pc = "idle" /\ req'[s].pc # "idle"

\* Slot s, serving a request, takes a step in this step.
Continues(s) == req[s].pc \in {"loaded", "called"} /\ req'[s] # req[s]

NoEffect == store' = store /\ upDeletes' = upDeletes

TypeOK ==
    /\ store \in Stores
    /\ \A s \in Slots : req[s].pc \in {"idle", "loaded", "called", "done"}
    /\ \A c \in ConvIds : upDeletes[c] \in 0..MaxInflight

\* C1: a request through _get_conversation_by_id by a user who is neither a
\* superuser nor the owner of the conversation ends at once in
\* AuthorityDenyException, with no manager call and no change of the store; one
\* naming a conversation_id that is not in the store ends in
\* errors.conversationNotFound, likewise without effect.
C1_OwnershipCheck ==
    [][\A s \in Slots :
         (Starts(s) /\ req'[s].op \in ByIdOps) =>
            LET r == req'[s] IN
            /\ (r.cid \in DOMAIN store /\ ~IsSuperuser(r.user)
                    /\ store[r.cid].user_id # r.user)
                 => (r.pc = "done" /\ r.out = "AuthorityDenyException"
                        /\ r.up = "none" /\ NoEffect)
            /\ (r.cid \notin DOMAIN store)
                 => (r.pc = "done" /\ r.out = "errors.conversationNotFound"
                        /\ r.up = "none" /\ NoEffect)]_vars

C1_Witness ==
    \E s \in Slots :
        /\ req[s].pc = "done" /\ req[s].op = "delete_conversation"
        /\ req[s].out = "AuthorityDenyException"
        /\ ~IsSuperuser(req[s].user)
        /\ req[s].cid \in DOMAIN store
        /\ store[req[s].cid].user_id # req[s].user
        /\ store[req[s].cid].is_valid

\* C2: for a caller who is not a superuser, get_all_conversations answers exactly
\* the records owned by the caller with is_valid true; with fetch_all it ends in
\* AuthorityDenyException and returns nothing.
C2_OwnValidOnly ==
    \A s \in Slots :
        (req[s].pc = "done" /\ req[s].op = "get_all_conversations"
            /\ ~IsSuperuser(req[s].user)) =>
           IF req[s].arg = "true"
           THEN req[s].out = "AuthorityDenyException" /\ req[s].result = {}
           ELSE /\ req[s].out = "200"
                /\ \A c \in ConvIds :
                     c \in req[s].result <=>
                        (c \in DOMAIN store /\ store[c].user_id = req[s].user
                            /\ store[c].is_valid)

C2_Witness ==
    \E s \in Slots :
        /\ req[s].pc = "done" /\ req[s].op = "get_all_conversations"
        /\ ~IsSuperuser(req[s].user) /\ req[s].arg = "false"
        /\ req[s].result # {}
        /\ \E c \in DOMAIN store : c \notin req[s].result

\* C3: for a superuser, get_all_conversations answers the conversations of every
\* user for either value of fetch_all: all records with fetch_all, the valid
\* records of every user without it.
C3_SuperuserSeesAll ==
    \A s \in Slots :
        (req[s].pc = "done" /\ req[s].op = "get_all_conversations"
            /\ IsSuperuser(req[s].user)) =>
           /\ req[s].out = "200"
           /\ req[s].result =
                 IF req[s].arg = "true"
                 THEN DOMAIN store
                 ELSE { c \in DOMAIN store : store[c].is_valid }

\* C4: soft- and hard-delete are idempotent.  After a delete_conversation that
\* answered 200, a second one by an authorised caller ends in
\* errors.conversationAlreadyDeleted with the store unchanged, and a
\* vanish_conversation removes the record; after a vanish_conversation that
\* answered 200, a second one ends in errors.conversationNotFound.  In each case
\* the second application makes no manager call.
SecondApplication(s) ==
    /\ applied.kind # "none"
    /\ req'[s] # req[s]
    /\ req'[s].op \in {"delete_conversation", "vanish_conversation"}
    /\ req'[s].cid = applied.cid
    /\ (req'[s].cid \in DOMAIN store) =>
          (IsSuperuser(req'[s].user) \/ store[req'[s].cid].user_id = req'[s].user)

RowRemoved(cid) ==
    /\ DOMAIN store' = (DOMAIN store) \ {cid}
    /\ \A c \in DOMAIN store' : store'[c] = store[c]

C4_Idempotent ==
    [][\A s \in Slots :
         SecondApplication(s) =>
            LET r == req'[s] IN
            /\ upDeletes' = upDeletes
            /\ r.up = "none"
            /\ (r.pc # "done") => store' = store
            /\ (r.pc = "done" /\ applied.kind = "soft" /\ r.op = "delete_conversation")
                 => (r.out = "errors.conversationAlreadyDeleted" /\ store' = store)
            /\ (r.pc = "done" /\ applied.kind = "soft" /\ r.op = "vanish_conversation")
                 => (r.out = "200" /\ r.cid \in DOMAIN store /\ RowRemoved(r.cid))
            /\ (r.pc = "done" /\ applied.kind = "hard")
                 => (r.out = "errors.conversationNotFound" /\ store' = store)]_vars

C4_Witness ==
    \E s \in Slots :
        /\ applied.kind = "soft"
        /\ req[s].pc = "done" /\ req[s].op = "delete_conversation"
        /\ req[s].cid = applied.cid
        /\ req[s].out = "errors.conversationAlreadyDeleted"
        /\ upDeletes[req[s].cid] = 1

\* C5: a conversation belongs to exactly one user.  Every record has one user_id,
\* that of a user; a record's user_id changes only in the commit of an
\* assign_conversation called by a superuser, which sets it to the id of the user
\* named by username; an assign_conversation that ends in errors.userNotFound or
\* errors.conversationNotFound changes no record.
C5_OneOwner ==
    [][/\ \A c \in DOMAIN store' : \E u \in UserTable : store'[c].user_id = u.id
       /\ \A c \in (DOMAIN store) \cap (DOMAIN store') :
            (store'[c].user_id # store[c].user_id) =>
               \E s \in Slots :
                  /\ req[s].op = "assign_conversation" /\ req[s].pc = "loaded"
                  /\ req'[s].pc = "done"
                  /\ req[s].cid = c
                  /\ IsSuperuser(req[s].user)
                  /\ \E u \in UserTable :
                        u.username = req[s].arg /\ store'[c].user_id = u.id
       /\ \A s \in Slots :
            (req[s].op = "assign_conversation" /\ req[s].pc = "loaded"
                /\ req'[s].pc = "done") =>
               /\ req'[s].out = "200"
               /\ \E u \in UserTable :
                     u.username = req[s].arg /\ store'[req[s].cid].user_id = u.id
       /\ \A s \in Slots :
            (Starts(s) /\ req'[s].op = "assign_conversation") =>
               /\ store' = store
               /\ (\A u \in UserTable : u.username # req'[s].arg)
                    => (req'[s].pc = "done"
                          /\ req'[s].out \in {"Forbidden", "errors.userNotFound"})
               /\ (req'[s].cid \notin DOMAIN store) => req'[s].pc = "done"]_vars

C5_Witness ==
    \E s \in Slots :
        /\ req[s].pc = "done" /\ req[s].op = "assign_conversation"
        /\ req[s].out = "200"
        /\ req[s].arg = "bob"
        /\ req[s].conv.user_id = 2
        /\ store[req[s].cid].user_id = 3

\* C6: in delete_conversation and vanish_conversation a revChatGPTError or an
\* HTTP 404 from the manager's delete call is not fatal: the handler goes on to
\* its local step (is_valid false, respectively the record removed) and answers
\* 200; any other HTTP status propagates and leaves the record present and valid.
C6_DeleteErrors ==
    [][\A s \in Slots :
         (Continues(s) /\ req[s].op \in {"delete_conversation", "vanish_conversation"}) =>
            LET r == req'[s] IN
            /\ (req[s].pc = "loaded" /\ r.up \in {"revChatGPTError", "http404"})
                 => (r.pc = "called" /\ store' = store)
            /\ (req[s].pc = "called" /\ req[s].up \in {"revChatGPTError", "http404"})
                 => /\ r.pc = "done" /\ r.out = "200"
                    /\ (r.op = "delete_conversation") =>
                          (r.cid \in DOMAIN store' /\ ~store'[r.cid].is_valid)
                    /\ (r.op = "vanish_conversation") => RowRemoved(r.cid)
            /\ (req[s].pc = "loaded" /\ r.up = "httpOther")
                 => /\ r.pc = "done" /\ r.out = "HTTPStatusError"
                    /\ store' = store
                    /\ r.cid \in DOMAIN store' /\ store'[r.cid].is_valid]_vars

C6_Witness ==
    \E s \in Slots :
        /\ req[s].pc = "done" /\ req[s].op = "delete_conversation"
        /\ req[s].up = "http404" /\ req[s].out = "200"
        /\ req[s].conv.is_valid
        /\ ~store[req[s].cid].is_valid

\* C7: get_conversation_history maps every failure of the manager to a domain
\* exception (404 to errors.conversationNotFound, any other HTTP status to
\* InternalException, a ValueError to InternalException with its message),
\* answers the document only when the manager call succeeds, and never changes
\* the store.
C7_HistoryErrors ==
    [][\A s \in Slots :
         (req'[s] # req[s] /\ req'[s].op = "get_conversation_history") =>
            LET r == req'[s] IN
            /\ store' = store
            /\ (req[s].pc = "loaded") =>
                 /\ r.pc = "done"
                 /\ r.up \in {"ok", "http404", "httpOther", "ValueError"}
                 /\ (r.up = "http404") => r.out = "errors.conversationNotFound"
                 /\ (r.up = "httpOther") => r.out = "InternalException"
                 /\ (r.up = "ValueError") => r.out = "InternalException(message)"
                 /\ (r.out = "200") <=> (r.up = "ok")]_vars

C7_Witness ==
    \E s \in Slots :
        /\ req[s].pc = "done" /\ req[s].op = "get_conversation_history"
        /\ req[s].up = "http404" /\ req[s].out = "errors.conversationNotFound"
        /\ req[s].cid \in DOMAIN store

\* C8: in update_conversation_title, delete_all_conversation and
\* generate_conversation_title the store is written only after the manager call
\* returned successfully: a raising call, an empty generated title or an already
\* titled record leaves the store unchanged; on success the stored title is the
\* one sent to, respectively returned by, the manager, and
\* delete_all_conversation leaves no record.
ManagerFirstOps ==
    {"update_conversation_title", "delete_all_conversation", "generate_conversation_title"}

C8_ManagerBeforeCommit ==
    [][\A s \in Slots :
         (req'[s] # req[s] /\ req'[s].op \in ManagerFirstOps) =>
            LET r == req'[s] IN
            /\ (store' # store) => (req[s].pc = "called" /\ req[s].up = "ok")
            /\ (r.up = "error") => (r.pc = "done" /\ r.out = "ManagerError")
            /\ (req[s].pc # "called") => store' = store
            /\ (r.op = "generate_conversation_title" /\ req[s].pc = "loaded"
                    /\ (req[s].conv.title # NoTitle \/ r.ret = ""))
                 => (r.pc = "done" /\ r.out # "200" /\ store' = store)
            /\ (req[s].pc = "called") =>
                 /\ r.pc = "done" /\ r.out = "200"
                 /\ (r.op = "update_conversation_title") =>
                       (r.arg \in Titles /\ store'[r.cid].title = r.arg)
                 /\ (r.op = "generate_conversation_title") =>
                       (r.ret \in Titles /\ store'[r.cid].title = r.ret)
                 /\ (r.op = "delete_all_conversation") => DOMAIN store' = {}]_vars

C8_Witness ==
    \E s \in Slots :
        /\ req[s].pc = "done" /\ req[s].op = "update_conversation_title"
        /\ req[s].up = "ok" /\ req[s].out = "200"
        /\ req[s].conv.title = NoTitle
        /\ store[req[s].cid].title = req[s].arg

\* C9: validity is monotonic: no step of the router sets is_valid of a record
\* back to true, and no step inserts a record, so a soft-deleted record stays
\* soft-deleted and a removed record never reappears.
C9_ValidityMonotonic ==
    [][\A c \in ConvIds :
         /\ (c \notin DOMAIN store) => (c \notin DOMAIN store')
         /\ (c \in DOMAIN store /\ c \in DOMAIN store' /\ ~store[c].is_valid)
              => ~store'[c].is_valid]_vars

C9_Witness ==
    \E s \in Slots :
        /\ req[s].pc = "done" /\ req[s].op = "assign_conversation"
        /\ req[s].out = "200"
        /\ ~req[s].conv.is_valid
        /\ store[req[s].cid].user_id # req[s].conv.user_id
        /\ ~store[req[s].cid].is_valid

\* C10: under any interleaving of concurrent requests, the manager's delete is
\* called at most once per conversation across delete_conversation and
\* vanish_conversation, and no handler commits a write on a record that another
\* request's commit changed or removed after the handler loaded it.
C10_NoRace ==
    [][/\ \A c \in ConvIds : upDeletes'[c] <= 1
       /\ \A s \in Slots :
            (Continues(s) /\ req'[s].pc = "done" /\ req'[s].out \in {"200", "StaleDataError"}) =>
               (req[s].cid \in DOMAIN store /\ store[req[s].cid] = req[s].conv)]_vars

====
